---- MODULE Spec2Model ----
(***************************************************************************)
(* Serpens Dev Manager, Tauri backend (src-tauri/src/main.rs).             *)
(*                                                                         *)
(* The backend is a set of commands over three pieces of state: the        *)
(* per-version addons directory of Blender (holding the installed          *)
(* scripting_nodes directory and its _serpens_original_backup sibling),    *)
(* the settings.json file of the tool, and the external git client.  The   *)
(* host issues one command at a time, so every command is one atomic       *)
(* action; the outcome of each filesystem call and each git invocation is  *)
(* an input of the action.                                                 *)
(***************************************************************************)
EXTENDS Integers, Sequences, FiniteSets, TLC

(***************************************************************************)
(* Bounds.                                                                 *)
(***************************************************************************)
\* file contents are 0..MaxContent; 0 is the empty (or truncated) file
MaxContent == 1
\* longest customPath of a Settings, in characters
MaxStrLen == 1
\* longest stdout of `git ls-remote`, in symbols
MaxOut == 4

VARIABLES
    appdata,    \* the APPDATA environment variable resolves
    addons,     \* <APPDATA>/Blender Foundation/Blender/<v>/scripts/addons exists
    inst,       \* the tree at <addons>/scripting_nodes, {} when absent
    bak,        \* the tree at <addons>/_serpens_original_backup, {} when absent
    bakWhole,   \* the copy that made the backup copied the whole installed tree
    sdir,       \* <APPDATA>/SerpensDevManager exists
    sfile,      \* settings.json: <<>> when absent, <<content>> when present
    last        \* the last command, its inputs and what it returned

vars == <<appdata, addons, inst, bak, bakWhole, sdir, sfile, last>>

(***************************************************************************)
(* Option<T>: None is <<>>, Some(x) is <<x>>.                              *)
(***************************************************************************)
None == <<>>
Some(x) == <<x>>

(***************************************************************************)
(* Directory trees.  A path is the sequence of its components below the    *)
(* directory the tree is rooted at; a tree is the set of its entries, the  *)
(* root directory included, so the absent directory is the empty set.      *)
(***************************************************************************)
Root == <<>>
GitDir == <<".git">>
InitFile == <<"__init__.py">>
SubDir == <<"sub">>
SubFile == <<"sub", "mod.py">>

DirPaths == {Root, GitDir, SubDir}
FilePaths == {InitFile, SubFile}
Contents == 0..MaxContent

Dir(p) == [path |-> p, kind |-> "dir", data |-> 0]
File(p, c) == [path |-> p, kind |-> "file", data |-> c]

AllEntries == {Dir(p) : p \in DirPaths} \cup {File(p, c) : p \in FilePaths, c \in Contents}

Parent(p) == SubSeq(p, 1, Len(p) - 1)

IsTree(t) ==
    /\ Dir(Root) \in t
    /\ \A e1 \in t, e2 \in t : e1.path = e2.path => e1 = e2
    /\ \A e \in t : e.path # Root => Dir(Parent(e.path)) \in t

Trees == {t \in SUBSET AllEntries : IsTree(t)}

Absent == {}

\* Path::exists on the root of a tree
Exists(t) == t # Absent

\* Path::exists on a path inside a tree
HasPath(t, p) == \E e \in t : e.path = p

\* read_dir: the entries directly under p
Children(t, p) == {e \in t : e.path # Root /\ Parent(e.path) = p}

\* the entries of d, and those of t at paths d does not have
Overlay(t, d) == {e \in t : ~HasPath(d, e.path)} \cup d

\* fs::create_dir_all(p) inside tree t, when it succeeds
CreateDirAll(t, p) == Overlay(t, {Dir(SubSeq(p, 1, n)) : n \in 0..Len(p)})

\* fs::copy of file entry e into tree t, when it succeeds: creates or overwrites
FsCopy(t, e) == Overlay(t, {e})

\* What a failing fs::remove_dir_all can leave of t: it deletes children
\* before parents, so what remains is a tree within t (t itself included).
RemoveAborts(t) == {r \in SUBSET t : IsTree(r)}

\* What a failing copy_dir_all(src, _) has copied when it gives up: nothing
\* (create_dir_all of the destination failed), or a tree within src, with
\* possibly one more file that fs::copy created and left truncated.
TruncatedNext(src, d) ==
    {{}} \cup {{File(e.path, 0)} : e \in {x \in src : /\ x.kind = "file"
                                                     /\ ~HasPath(d, x.path)
                                                     /\ Dir(Parent(x.path)) \in d}}

CopyAborts(src) ==
    {Absent} \cup
    UNION {{d \cup l : l \in TruncatedNext(src, d)} : d \in {r \in SUBSET src : IsTree(r)}}

(***************************************************************************)
(* fn copy_dir_all(src, dst).  `abort` is None when no I/O call fails, and *)
(* Some(what was copied) when one does.                                    *)
(***************************************************************************)
RECURSIVE CopyDir(_, _, _)
RECURSIVE CopyEntries(_, _, _)

CopyEntries(src, dst, todo) ==
    IF todo = {} THEN dst
    ELSE LET entry == CHOOSE x \in todo : TRUE
         IN  CopyEntries(src,
                         IF entry.kind = "dir"
                         THEN CopyDir(src, dst, entry.path)
                         ELSE FsCopy(dst, entry),
                         todo \ {entry})

CopyDir(src, dst, p) == CopyEntries(src, CreateDirAll(dst, p), Children(src, p))

copy_dir_all(src, dst, abort) ==
    IF abort = None
    THEN [ok |-> TRUE, dst |-> CopyDir(src, dst, Root)]
    ELSE [ok |-> FALSE, dst |-> Overlay(dst, abort[1])]

(***************************************************************************)
(* Paths as the commands report them (to_string_lossy), component by       *)
(* component.                                                              *)
(***************************************************************************)
BlenderVersion == "5.0"
AddonsPath == <<"%APPDATA%", "Blender Foundation", "Blender", BlenderVersion, "scripts", "addons">>
BackupDest == Append(AddonsPath, "_serpens_original_backup")

\* format!("Backup already exists: {}", path)
AlreadyExistsMsg(path) == <<"Backup already exists: ">> \o path

(***************************************************************************)
(* External git client: how an invocation ends.                            *)
(***************************************************************************)
GitResults == {"nolaunch", "nonzero", "ok"}

\* stdout of `git rev-parse --abbrev-ref HEAD` and of `git log -1 ...`
BranchStdouts == {<<"main", "\n">>}
DateStdouts == {<<"2 days ago", "\n">>}

IsSpace(c) == c \in {" ", "\n"}

RECURSIVE TrimStart(_)
TrimStart(s) == IF s # <<>> /\ IsSpace(Head(s)) THEN TrimStart(Tail(s)) ELSE s

RECURSIVE TrimEnd(_)
TrimEnd(s) == IF s # <<>> /\ IsSpace(s[Len(s)]) THEN TrimEnd(SubSeq(s, 1, Len(s) - 1)) ELSE s

\* str::trim
Trim(s) == TrimEnd(TrimStart(s))

\* Command::output() of a query: Err, or Ok with an exit status and a stdout
Queries(stdouts) ==
    {[res |-> r, stdout |-> <<>>] : r \in {"nolaunch", "nonzero"}}
        \cup {[res |-> "ok", stdout |-> o] : o \in stdouts}

\* a command that returns before it reaches an I/O call has one way to run
NotRun == [res |-> "notrun", stdout |-> <<>>]

\* a tree `git clone` or `git pull` leaves when it succeeds: .git and the
\* files of the branch
CloneTrees == {t \in Trees : Dir(GitDir) \in t}

(***************************************************************************)
(* The record of a call: the command, whether it returned Ok, its error,   *)
(* and what the properties below need of its inputs and its result:        *)
(*   ret       the String backup_installation returned                     *)
(*   copied    backup_installation called copy_dir_all                     *)
(*   status    the InstallStatus check_installation returned               *)
(*   git       how the git invocation of the command ended                 *)
(*   q1, q2    how the two queries of check_installation ended             *)
(*   leftover  what a clone that exited non-zero left at the destination   *)
(*   existed   an installed directory existed when the command started     *)
(*   extra     it held an entry that the backup does not hold              *)
(*   saved     the Settings a successful save_settings wrote               *)
(*   settings  the Settings load_settings returned                         *)
(*   stdout    the stdout fetch_branches parsed                            *)
(*   branches  the Vec<Branch> fetch_branches returned                     *)
(***************************************************************************)
NoCall ==
    [op |-> "none", ok |-> TRUE, err |-> "", ret |-> <<>>, copied |-> FALSE,
     status |-> None, git |-> "", q1 |-> "", q2 |-> "", leftover |-> Absent,
     existed |-> FALSE, extra |-> FALSE,
     saved |-> None, settings |-> None, stdout |-> <<>>, branches |-> <<>>]

Call(op, ok, err) == [NoCall EXCEPT !.op = op, !.ok = ok, !.err = err]

(***************************************************************************)
(* Every command returns the call record and the filesystem it leaves.     *)
(***************************************************************************)
Outcome(call, addonsE, instT, bakT) ==
    [call |-> call, addons |-> addonsE, inst |-> instT, bak |-> bakT]

NoAppdata(op, addonsE, instT, bakT) ==
    Outcome(Call(op, FALSE, "APPDATA not found"), addonsE, instT, bakT)

(***************************************************************************)
(* fn check_installation(blender_version)                                  *)
(***************************************************************************)
CheckIOs(env, instT) ==
    IF env /\ Exists(instT) /\ HasPath(instT, GitDir)
    THEN [q1 : Queries(BranchStdouts), q2 : Queries(DateStdouts)]
    ELSE {[q1 |-> NotRun, q2 |-> NotRun]}

QueryField(instT, q) ==
    IF Exists(instT) /\ HasPath(instT, GitDir) /\ q.res = "ok"
    THEN Some(Trim(q.stdout))
    ELSE None

\* check_installation that propagates a query that cannot be launched
check_installation_strict(env, addonsE, instT, bakT, io) ==
    IF ~env THEN NoAppdata("check_installation", addonsE, instT, bakT)
    ELSE IF io.q1.res = "nolaunch" \/ io.q2.res = "nolaunch"
    THEN Outcome([Call("check_installation", FALSE, "Failed to run git") EXCEPT
                     !.q1 = io.q1.res, !.q2 = io.q2.res],
                 addonsE, instT, bakT)
    ELSE Outcome([Call("check_installation", TRUE, "") EXCEPT
                     !.q1 = io.q1.res, !.q2 = io.q2.res,
                     !.status = Some([installed |-> Exists(instT),
                                      path |-> AddonsPath,
                                      branch |-> QueryField(instT, io.q1),
                                      last_updated |-> QueryField(instT, io.q2)])],
                 addonsE, instT, bakT)

check_installation(env, addonsE, instT, bakT, io) ==
    IF ~env THEN NoAppdata("check_installation", addonsE, instT, bakT)
    ELSE Outcome([Call("check_installation", TRUE, "") EXCEPT
                     !.q1 = io.q1.res, !.q2 = io.q2.res,
                     !.status = Some([installed |-> Exists(instT),
                                      path |-> AddonsPath,
                                      branch |-> QueryField(instT, io.q1),
                                      last_updated |-> QueryField(instT, io.q2)])],
                 addonsE, instT, bakT)

(***************************************************************************)
(* fn backup_installation(blender_version)                                 *)
(***************************************************************************)
BackupIOs(env, instT, bakT) ==
    IF env /\ Exists(instT) /\ ~Exists(bakT)
    THEN {None} \cup {Some(d) : d \in CopyAborts(instT)}
    ELSE {None}

\* backup_installation without the check for an existing backup
backup_installation_overwrite(env, addonsE, instT, bakT, abort) ==
    IF ~env THEN NoAppdata("backup_installation", addonsE, instT, bakT)
    ELSE IF ~Exists(instT)
    THEN Outcome(Call("backup_installation", FALSE, "No installation found to backup"),
                 addonsE, instT, bakT)
    ELSE LET c == copy_dir_all(instT, bakT, abort)
         IN  IF c.ok
             THEN Outcome([Call("backup_installation", TRUE, "") EXCEPT
                              !.ret = BackupDest, !.copied = TRUE],
                          addonsE, instT, c.dst)
             ELSE Outcome([Call("backup_installation", FALSE, "Failed to copy") EXCEPT
                              !.copied = TRUE],
                          addonsE, instT, c.dst)

\* backup_installation that refuses when a backup exists
backup_installation_refuse(env, addonsE, instT, bakT, abort) ==
    IF ~env THEN NoAppdata("backup_installation", addonsE, instT, bakT)
    ELSE IF ~Exists(instT)
    THEN Outcome(Call("backup_installation", FALSE, "No installation found to backup"),
                 addonsE, instT, bakT)
    ELSE IF Exists(bakT)
    THEN Outcome(Call("backup_installation", FALSE, "Backup already exists"),
                 addonsE, instT, bakT)
    ELSE LET c == copy_dir_all(instT, bakT, abort)
         IN  IF c.ok
             THEN Outcome([Call("backup_installation", TRUE, "") EXCEPT
                              !.ret = BackupDest, !.copied = TRUE],
                          addonsE, instT, c.dst)
             ELSE Outcome([Call("backup_installation", FALSE, "Failed to copy") EXCEPT
                              !.copied = TRUE],
                          addonsE, instT, c.dst)

backup_installation(env, addonsE, instT, bakT, abort) ==
    IF ~env THEN NoAppdata("backup_installation", addonsE, instT, bakT)
    ELSE IF ~Exists(instT)
    THEN Outcome(Call("backup_installation", FALSE, "No installation found to backup"),
                 addonsE, instT, bakT)
    ELSE IF Exists(bakT)
    THEN Outcome([Call("backup_installation", TRUE, "") EXCEPT
                     !.ret = AlreadyExistsMsg(BackupDest)],
                 addonsE, instT, bakT)
    ELSE LET c == copy_dir_all(instT, bakT, abort)
         IN  IF c.ok
             THEN Outcome([Call("backup_installation", TRUE, "") EXCEPT
                              !.ret = BackupDest, !.copied = TRUE],
                          addonsE, instT, c.dst)
             ELSE Outcome([Call("backup_installation", FALSE, "Failed to copy") EXCEPT
                              !.copied = TRUE],
                          addonsE, instT, c.dst)

(***************************************************************************)
(* fn restore_backup(blender_version)                                      *)
(***************************************************************************)
RestoreIOs(env, instT, bakT) ==
    IF env /\ Exists(bakT)
    THEN {[rm |-> None, copy |-> None]}
             \cup {[rm |-> Some(r), copy |-> None] : r \in RemoveAborts(instT)}
             \cup {[rm |-> None, copy |-> Some(d)] : d \in CopyAborts(bakT)}
    ELSE {[rm |-> None, copy |-> None]}

\* restore_backup without the removal of the current installation
restore_backup_merge(env, addonsE, instT, bakT, io) ==
    IF ~env THEN NoAppdata("restore_backup", addonsE, instT, bakT)
    ELSE IF ~Exists(bakT)
    THEN Outcome(Call("restore_backup", FALSE, "No backup found"), addonsE, instT, bakT)
    ELSE LET c == copy_dir_all(bakT, instT, io.copy)
         IN  IF c.ok
             THEN Outcome([Call("restore_backup", TRUE, "") EXCEPT
                              !.existed = Exists(instT), !.extra = (instT \ bakT # {})],
                          addonsE, c.dst, bakT)
             ELSE Outcome(Call("restore_backup", FALSE, "Failed to restore"),
                          addonsE, c.dst, bakT)

restore_backup(env, addonsE, instT, bakT, io) ==
    IF ~env THEN NoAppdata("restore_backup", addonsE, instT, bakT)
    ELSE IF ~Exists(bakT)
    THEN Outcome(Call("restore_backup", FALSE, "No backup found"), addonsE, instT, bakT)
    ELSE IF Exists(instT) /\ io.rm # None
    THEN Outcome(Call("restore_backup", FALSE, "Failed to remove current"),
                 addonsE, io.rm[1], bakT)
    ELSE LET c == copy_dir_all(bakT, Absent, io.copy)
         IN  IF c.ok
             THEN Outcome([Call("restore_backup", TRUE, "") EXCEPT
                              !.existed = Exists(instT), !.extra = (instT \ bakT # {})],
                          addonsE, c.dst, bakT)
             ELSE Outcome(Call("restore_backup", FALSE, "Failed to restore"),
                          addonsE, c.dst, bakT)

(***************************************************************************)
(* fn switch_branch(branch_name, blender_version)                          *)
(***************************************************************************)
\* what a `git clone` that exits non-zero leaves at the destination: nothing,
\* the directory it created, or that directory with its .git
CloneLeftovers == {Absent, {Dir(Root)}, {Dir(Root), Dir(GitDir)}}

\* create_dir_all succeeds on a directory that exists
SwitchIOs(env, addonsE, instT) ==
    IF env
    THEN {[mkdir |-> m, rm |-> None, git |-> "nolaunch", tree |-> Absent] :
             m \in IF addonsE THEN {TRUE} ELSE BOOLEAN}
             \cup {[mkdir |-> TRUE, rm |-> Some(r), git |-> "nolaunch", tree |-> Absent] :
                     r \in RemoveAborts(instT)}
             \cup {[mkdir |-> TRUE, rm |-> None, git |-> "nonzero", tree |-> t] :
                     t \in CloneLeftovers}
             \cup {[mkdir |-> TRUE, rm |-> None, git |-> "ok", tree |-> t] :
                     t \in CloneTrees}
    ELSE {[mkdir |-> TRUE, rm |-> None, git |-> "nolaunch", tree |-> Absent]}

\* switch_branch that removes the clone when the marker file is missing
switch_branch_cleanup(env, addonsE, instT, bakT, io) ==
    IF ~env THEN NoAppdata("switch_branch", addonsE, instT, bakT)
    ELSE IF ~io.mkdir
    THEN Outcome(Call("switch_branch", FALSE, "Failed to create addons dir"),
                 addonsE, instT, bakT)
    ELSE IF Exists(instT) /\ io.rm # None
    THEN Outcome(Call("switch_branch", FALSE, "Failed to remove existing"),
                 TRUE, io.rm[1], bakT)
    ELSE IF io.git = "nolaunch"
    THEN Outcome([Call("switch_branch", FALSE, "Failed to run git") EXCEPT
                     !.git = io.git, !.existed = Exists(instT)],
                 TRUE, Absent, bakT)
    ELSE IF io.git = "nonzero"
    THEN Outcome([Call("switch_branch", FALSE, "Git clone failed") EXCEPT
                     !.git = io.git, !.leftover = io.tree, !.existed = Exists(instT)],
                 TRUE, io.tree, bakT)
    ELSE IF ~HasPath(io.tree, InitFile)
    THEN Outcome([Call("switch_branch", FALSE, "Clone completed but __init__.py not found")
                     EXCEPT !.git = io.git],
                 TRUE, Absent, bakT)
    ELSE Outcome([Call("switch_branch", TRUE, "") EXCEPT !.git = io.git],
                 TRUE, io.tree, bakT)

\* switch_branch that puts the previous installation back when the clone fails
switch_branch_rollback(env, addonsE, instT, bakT, io) ==
    IF ~env THEN NoAppdata("switch_branch", addonsE, instT, bakT)
    ELSE IF ~io.mkdir
    THEN Outcome(Call("switch_branch", FALSE, "Failed to create addons dir"),
                 addonsE, instT, bakT)
    ELSE IF Exists(instT) /\ io.rm # None
    THEN Outcome(Call("switch_branch", FALSE, "Failed to remove existing"),
                 TRUE, io.rm[1], bakT)
    ELSE IF io.git = "nolaunch"
    THEN Outcome([Call("switch_branch", FALSE, "Failed to run git") EXCEPT
                     !.git = io.git, !.existed = Exists(instT)],
                 TRUE, instT, bakT)
    ELSE IF io.git = "nonzero"
    THEN Outcome([Call("switch_branch", FALSE, "Git clone failed") EXCEPT
                     !.git = io.git, !.leftover = io.tree, !.existed = Exists(instT)],
                 TRUE, instT, bakT)
    ELSE IF ~HasPath(io.tree, InitFile)
    THEN Outcome([Call("switch_branch", FALSE, "Clone completed but __init__.py not found")
                     EXCEPT !.git = io.git],
                 TRUE, io.tree, bakT)
    ELSE Outcome([Call("switch_branch", TRUE, "") EXCEPT !.git = io.git],
                 TRUE, io.tree, bakT)

switch_branch(env, addonsE, instT, bakT, io) ==
    IF ~env THEN NoAppdata("switch_branch", addonsE, instT, bakT)
    ELSE IF ~io.mkdir
    THEN Outcome(Call("switch_branch", FALSE, "Failed to create addons dir"),
                 addonsE, instT, bakT)
    ELSE IF Exists(instT) /\ io.rm # None
    THEN Outcome(Call("switch_branch", FALSE, "Failed to remove existing"),
                 TRUE, io.rm[1], bakT)
    ELSE IF io.git = "nolaunch"
    THEN Outcome([Call("switch_branch", FALSE, "Failed to run git") EXCEPT
                     !.git = io.git, !.existed = Exists(instT)],
                 TRUE, Absent, bakT)
    ELSE IF io.git = "nonzero"
    THEN Outcome([Call("switch_branch", FALSE, "Git clone failed") EXCEPT
                     !.git = io.git, !.leftover = io.tree, !.existed = Exists(instT)],
                 TRUE, io.tree, bakT)
    ELSE IF ~HasPath(io.tree, InitFile)
    THEN Outcome([Call("switch_branch", FALSE, "Clone completed but __init__.py not found")
                     EXCEPT !.git = io.git],
                 TRUE, io.tree, bakT)
    ELSE Outcome([Call("switch_branch", TRUE, "") EXCEPT !.git = io.git],
                 TRUE, io.tree, bakT)

(***************************************************************************)
(* fn pull_latest(blender_version)                                         *)
(***************************************************************************)
\* `git pull` touches the directory only inside a work tree: it rewrites the
\* work tree and keeps .git, also when it stops with a non-zero exit
PullIOs(env, instT) ==
    IF env /\ Exists(instT)
    THEN {[git |-> g, tree |-> instT] : g \in {"nolaunch", "nonzero"}}
             \cup {[git |-> g, tree |-> t] :
                     g \in {"nonzero", "ok"},
                     t \in IF HasPath(instT, GitDir) THEN CloneTrees ELSE {}}
    ELSE {[git |-> "nolaunch", tree |-> instT]}

pull_latest(env, addonsE, instT, bakT, io) ==
    IF ~env THEN NoAppdata("pull_latest", addonsE, instT, bakT)
    ELSE IF ~Exists(instT)
    THEN Outcome(Call("pull_latest", FALSE, "No installation found"), addonsE, instT, bakT)
    ELSE IF io.git = "nolaunch"
    THEN Outcome([Call("pull_latest", FALSE, "Failed to run git") EXCEPT !.git = io.git],
                 addonsE, instT, bakT)
    ELSE IF io.git = "ok"
    THEN Outcome([Call("pull_latest", TRUE, "") EXCEPT !.git = io.git],
                 addonsE, io.tree, bakT)
    ELSE Outcome([Call("pull_latest", FALSE, "stderr") EXCEPT !.git = io.git],
                 addonsE, io.tree, bakT)

(***************************************************************************)
(* fn open_folder(blender_version)                                         *)
(***************************************************************************)
OpenIOs(env, addonsE) ==
    IF env
    THEN [mkdir : IF addonsE THEN {TRUE} ELSE BOOLEAN, spawn : BOOLEAN]
    ELSE {[mkdir |-> TRUE, spawn |-> TRUE]}

open_folder(env, addonsE, instT, bakT, io) ==
    IF ~env THEN NoAppdata("open_folder", addonsE, instT, bakT)
    ELSE IF io.spawn
    THEN Outcome(Call("open_folder", TRUE, ""), addonsE \/ io.mkdir, instT, bakT)
    ELSE Outcome(Call("open_folder", FALSE, "Failed to open explorer"),
                 addonsE \/ io.mkdir, instT, bakT)

(***************************************************************************)
(* The installation state machine.                                         *)
(***************************************************************************)
Apply(r) ==
    /\ addons' = r.addons
    /\ inst' = r.inst
    /\ bak' = r.bak
    /\ bakWhole' = IF r.call.copied THEN r.bak = inst ELSE bakWhole
    /\ last' = r.call
    /\ UNCHANGED <<appdata, sdir, sfile>>

CheckInstallation ==
    \E io \in CheckIOs(appdata, inst) : Apply(check_installation(appdata, addons, inst, bak, io))

BackupInstallation ==
    \E abort \in BackupIOs(appdata, inst, bak) :
        Apply(backup_installation(appdata, addons, inst, bak, abort))

RestoreBackup ==
    \E io \in RestoreIOs(appdata, inst, bak) : Apply(restore_backup(appdata, addons, inst, bak, io))

SwitchBranch ==
    \E io \in SwitchIOs(appdata, addons, inst) : Apply(switch_branch(appdata, addons, inst, bak, io))

PullLatest ==
    \E io \in PullIOs(appdata, inst) : Apply(pull_latest(appdata, addons, inst, bak, io))

OpenFolder ==
    \E io \in OpenIOs(appdata, addons) : Apply(open_folder(appdata, addons, inst, bak, io))

\* The manager starts on a machine where the plugin may or may not be
\* installed, with any contents, and where it has made no backup yet.
Init ==
    /\ appdata \in BOOLEAN
    /\ inst \in {Absent} \cup Trees
    /\ addons \in IF Exists(inst) THEN {TRUE} ELSE BOOLEAN
    /\ bak = Absent
    /\ bakWhole = FALSE
    /\ sdir = FALSE
    /\ sfile = None
    /\ last = NoCall

Next ==
    \/ CheckInstallation
    \/ BackupInstallation
    \/ RestoreBackup
    \/ SwitchBranch
    \/ PullLatest
    \/ OpenFolder

Spec == Init /\ [][Next]_vars

(***************************************************************************)
(* Settings and their JSON document.  A string is a sequence of            *)
(* characters; the document is the sequence of symbols serde_json emits:   *)
(* punctuation, whitespace, the quoted field names, and the characters of  *)
(* the string values with quote and backslash escaped.                     *)
(***************************************************************************)
Quote == "\""
Backslash == "\\"
Alphabet == {"a", Quote, Backslash}

Strings == UNION {[1..n -> Alphabet] : n \in 0..MaxStrLen}

\* the Blender versions the host offers
Versions == {<<"5", ".", "0">>, <<"4", ".", "2">>}

Settings == [blender_version : Versions, custom_path : Strings, auto_backup : BOOLEAN]

DefaultSettings == [blender_version |-> <<"5", ".", "0">>, custom_path |-> <<>>, auto_backup |-> TRUE]

\* serde_json's escaping of one character of a string
EscapeChar(c) ==
    IF c = Quote THEN <<Backslash, Quote>>
    ELSE IF c = Backslash THEN <<Backslash, Backslash>>
    ELSE <<c>>

\* escaping that leaves the backslash alone
RECURSIVE EscapeQuotesOnly(_)
EscapeQuotesOnly(str) ==
    IF str = <<>> THEN <<>>
    ELSE (IF Head(str) = Quote THEN <<Backslash, Quote>> ELSE <<Head(str)>>)
             \o EscapeQuotesOnly(Tail(str))

RECURSIVE Escape(_)
Escape(str) == IF str = <<>> THEN <<>> ELSE EscapeChar(Head(str)) \o Escape(Tail(str))

SerializeString(str) == <<Quote>> \o Escape(str) \o <<Quote>>

SerializeBool(b) == IF b THEN <<"true">> ELSE <<"false">>

Indent == <<"\n", " ", " ">>

\* serde_json::to_string_pretty(&settings)
to_string_pretty(v) ==
    <<"{">>
        \o Indent \o <<"blenderVersion", ":", " ">> \o SerializeString(v.blender_version) \o <<",">>
        \o Indent \o <<"customPath", ":", " ">> \o SerializeString(v.custom_path) \o <<",">>
        \o Indent \o <<"autoBackup", ":", " ">> \o SerializeBool(v.auto_backup)
        \o <<"\n", "}">>

\* The parser.  A position is an index into the document; 0 is a parse error.
RECURSIVE SkipWs(_, _)
SkipWs(doc, i) ==
    IF i >= 1 /\ i <= Len(doc) /\ IsSpace(doc[i]) THEN SkipWs(doc, i + 1) ELSE i

\* the position after token tok, which must come next after whitespace
Expect(doc, i, tok) ==
    LET j == SkipWs(doc, i)
    IN  IF i >= 1 /\ j <= Len(doc) /\ doc[j] = tok THEN j + 1 ELSE 0

\* the characters of a string from position i (after its opening quote) on
RECURSIVE ParseChars(_, _, _)
ParseChars(doc, i, acc) ==
    IF i > Len(doc) THEN [next |-> 0, val |-> acc]
    ELSE IF doc[i] = Quote THEN [next |-> i + 1, val |-> acc]
    ELSE IF doc[i] = Backslash
    THEN IF i + 1 <= Len(doc) /\ doc[i + 1] \in {Quote, Backslash}
         THEN ParseChars(doc, i + 2, Append(acc, doc[i + 1]))
         ELSE [next |-> 0, val |-> acc]
    ELSE ParseChars(doc, i + 1, Append(acc, doc[i]))

ParseString(doc, i) ==
    LET j == Expect(doc, i, Quote)
    IN  IF j = 0 THEN [next |-> 0, val |-> <<>>] ELSE ParseChars(doc, j, <<>>)

ParseBool(doc, i) ==
    LET j == SkipWs(doc, i)
    IN  IF i >= 1 /\ j <= Len(doc) /\ doc[j] \in {"true", "false"}
        THEN [next |-> j + 1, val |-> doc[j] = "true"]
        ELSE [next |-> 0, val |-> FALSE]

\* serde_json::from_str::<Settings>(&content): None is a parse error.  The
\* documents it meets are those save_settings wrote, whole or in part, so
\* the fields come in the order of the struct.
from_str(doc) ==
    LET p1 == Expect(doc, Expect(doc, Expect(doc, 1, "{"), "blenderVersion"), ":")
        s1 == ParseString(doc, p1)
        p2 == Expect(doc, Expect(doc, Expect(doc, s1.next, ","), "customPath"), ":")
        s2 == ParseString(doc, p2)
        p3 == Expect(doc, Expect(doc, Expect(doc, s2.next, ","), "autoBackup"), ":")
        b3 == ParseBool(doc, p3)
        p4 == Expect(doc, b3.next, "}")
    IN  IF p4 # 0 /\ SkipWs(doc, p4) = Len(doc) + 1
        THEN Some([blender_version |-> s1.val, custom_path |-> s2.val, auto_backup |-> b3.val])
        ELSE None

SettingsOutcome(call, sdirE, sfileV) == [call |-> call, sdir |-> sdirE, sfile |-> sfileV]

(***************************************************************************)
(* fn load_settings()                                                      *)
(***************************************************************************)
\* read_to_string succeeds or fails
LoadIOs(env, sfileV) == IF env /\ sfileV # None THEN BOOLEAN ELSE {TRUE}

load_settings(env, sdirE, sfileV, readOk) ==
    IF ~env
    THEN SettingsOutcome(Call("load_settings", FALSE, "APPDATA not found"), sdirE, sfileV)
    ELSE IF sfileV = None
    THEN SettingsOutcome([Call("load_settings", TRUE, "") EXCEPT
                             !.settings = Some(DefaultSettings)],
                         sdirE, sfileV)
    ELSE IF ~readOk
    THEN SettingsOutcome(Call("load_settings", FALSE, "Failed to read settings"),
                         sdirE, sfileV)
    ELSE LET parsed == from_str(sfileV[1])
         IN  IF parsed = None
             THEN SettingsOutcome(Call("load_settings", FALSE, "Failed to parse settings"),
                                  sdirE, sfileV)
             ELSE SettingsOutcome([Call("load_settings", TRUE, "") EXCEPT
                                      !.settings = parsed],
                                  sdirE, sfileV)

(***************************************************************************)
(* fn save_settings(settings)                                              *)
(***************************************************************************)
\* fs::write opens the file with truncation and then writes.  `write` is
\* None when it succeeds, Some(-1) when the file cannot be opened, and
\* Some(k) when the write fails after k symbols of the content.
SaveIOs(env, sdirE, v) ==
    IF env
    THEN {[mkdir |-> m, write |-> None] : m \in IF sdirE THEN {TRUE} ELSE BOOLEAN}
             \cup {[mkdir |-> TRUE, write |-> Some(k)] :
                     k \in (-1)..(Len(to_string_pretty(v)) - 1)}
    ELSE {[mkdir |-> TRUE, write |-> None]}

save_settings(env, sdirE, sfileV, v, io) ==
    IF ~env
    THEN SettingsOutcome(Call("save_settings", FALSE, "APPDATA not found"), sdirE, sfileV)
    ELSE IF ~io.mkdir
    THEN SettingsOutcome(Call("save_settings", FALSE, "Failed to create settings dir"),
                         sdirE, sfileV)
    ELSE LET content == to_string_pretty(v)
         IN  IF io.write = None
             THEN SettingsOutcome([Call("save_settings", TRUE, "") EXCEPT !.saved = Some(v)],
                                  TRUE, Some(content))
             ELSE SettingsOutcome(Call("save_settings", FALSE, "Failed to write settings"),
                                  TRUE,
                                  IF io.write[1] < 0 THEN sfileV
                                  ELSE Some(SubSeq(content, 1, io.write[1])))

ApplySettings(r) ==
    /\ sdir' = r.sdir
    /\ sfile' = r.sfile
    /\ last' = r.call
    /\ UNCHANGED <<appdata, addons, inst, bak, bakWhole>>

LoadSettings ==
    \E readOk \in LoadIOs(appdata, sfile) :
        ApplySettings(load_settings(appdata, sdir, sfile, readOk))

SaveSettings ==
    \E v \in Settings : \E io \in SaveIOs(appdata, sdir, v) :
        ApplySettings(save_settings(appdata, sdir, sfile, v, io))

\* The tool starts with no settings file.
InitSettings ==
    /\ appdata \in BOOLEAN
    /\ addons = FALSE
    /\ inst = Absent
    /\ bak = Absent
    /\ bakWhole = FALSE
    /\ sdir \in BOOLEAN
    /\ sfile = None
    /\ last = NoCall

NextSettings ==
    \/ LoadSettings
    \/ SaveSettings

SpecSettings == InitSettings /\ [][NextSettings]_vars

(***************************************************************************)
(* fn fetch_branches().  The stdout of `git ls-remote --heads` is a        *)
(* sequence of symbols: tab, newline, the ref prefix, and "s" for any      *)
(* other run of characters.                                                *)
(***************************************************************************)
Tab == "\t"
Newline == "\n"
RefsHeads == "refs/heads/"
OutAlphabet == {Tab, Newline, RefsHeads, "s"}

Stdouts == UNION {[1..n -> OutAlphabet] : n \in 0..MaxOut}

\* the index of the first c in s, Len(s) + 1 when there is none
RECURSIVE Find(_, _, _)
Find(s, c, i) == IF i > Len(s) \/ s[i] = c THEN i ELSE Find(s, c, i + 1)

\* str::lines: the final line needs no terminator
RECURSIVE Lines(_)
Lines(s) ==
    IF s = <<>> THEN <<>>
    ELSE LET n == Find(s, Newline, 1)
         IN  <<SubSeq(s, 1, n - 1)>> \o Lines(SubSeq(s, n + 1, Len(s)))

\* str::split('\t')
RECURSIVE Split(_)
Split(line) ==
    LET n == Find(line, Tab, 1)
    IN  IF n > Len(line) THEN <<line>>
        ELSE <<SubSeq(line, 1, n - 1)>> \o Split(SubSeq(line, n + 1, Len(line)))

\* part.strip_prefix("refs/heads/").unwrap_or(part)
StripPrefix(part) == IF part # <<>> /\ Head(part) = RefsHeads THEN Tail(part) ELSE part

\* the closure of filter_map
ParseLine(line) ==
    LET parts == Split(line)
    IN  IF Len(parts) = 2
        THEN Some([name |-> StripPrefix(parts[2]), last_commit |-> None])
        ELSE None

RECURSIVE FilterMap(_)
FilterMap(lines) ==
    IF lines = <<>> THEN <<>> ELSE ParseLine(Head(lines)) \o FilterMap(Tail(lines))

FetchIOs ==
    {[res |-> r, stdout |-> <<>>] : r \in {"nolaunch", "nonzero"}}
        \cup {[res |-> "ok", stdout |-> o] : o \in Stdouts}

\* fetch_branches without the check for an empty result
fetch_branches_allow_empty(io) ==
    IF io.res = "nolaunch"
    THEN [Call("fetch_branches", FALSE, "Failed to run git") EXCEPT !.git = io.res]
    ELSE IF io.res = "nonzero"
    THEN [Call("fetch_branches", FALSE, "Git error") EXCEPT !.git = io.res]
    ELSE [Call("fetch_branches", TRUE, "") EXCEPT
             !.git = io.res, !.stdout = io.stdout,
             !.branches = FilterMap(Lines(io.stdout))]

fetch_branches(io) ==
    IF io.res = "nolaunch"
    THEN [Call("fetch_branches", FALSE, "Failed to run git") EXCEPT !.git = io.res]
    ELSE IF io.res = "nonzero"
    THEN [Call("fetch_branches", FALSE, "Git error") EXCEPT !.git = io.res]
    ELSE LET branches == FilterMap(Lines(io.stdout))
         IN  IF branches = <<>>
             THEN [Call("fetch_branches", FALSE, "No branches found") EXCEPT
                      !.git = io.res, !.stdout = io.stdout]
             ELSE [Call("fetch_branches", TRUE, "") EXCEPT
                      !.git = io.res, !.stdout = io.stdout, !.branches = branches]

FetchBranches ==
    /\ \E io \in FetchIOs : last' = fetch_branches(io)
    /\ UNCHANGED <<appdata, addons, inst, bak, bakWhole, sdir, sfile>>

InitFetch ==
    /\ appdata = TRUE
    /\ addons = FALSE
    /\ inst = Absent
    /\ bak = Absent
    /\ bakWhole = FALSE
    /\ sdir = FALSE
    /\ sfile = None
    /\ last = NoCall

NextFetch == FetchBranches

SpecFetch == InitFetch /\ [][NextFetch]_vars

(***************************************************************************)
(* Properties.                                                             *)
(***************************************************************************)

\* C1: once the backup directory exists, no command changes its contents or
\* removes it.
BackupNeverChanges == [][Exists(bak) => bak' = bak]_vars

\* a switch has replaced the installation next to an existing backup
BackupNeverChangesWitness ==
    /\ Exists(bak)
    /\ last.op = "switch_branch"
    /\ last.ok
    /\ inst # bak

\* C2: when restore_backup returns Ok, which it does when a backup exists
\* and no I/O step fails, the installed directory holds exactly the tree of
\* the backup.
RestoreReplaces == last.op = "restore_backup" /\ last.ok => inst = bak

\* a restore over an installation that held entries the backup does not
RestoreReplacesWitness ==
    /\ last.op = "restore_backup"
    /\ last.ok
    /\ last.extra
    /\ inst = bak

MissingMarkerFails ==
    (last.op = "switch_branch" /\ last.git = "ok" /\ ~HasPath(inst, InitFile))
        => ~last.ok /\ Exists(inst) /\ HasPath(inst, GitDir)

MissingMarkerWitness ==
    /\ last.op = "switch_branch"
    /\ last.git = "ok"
    /\ last.err = "Clone completed but __init__.py not found"
    /\ Exists(inst)
    /\ ~HasPath(inst, InitFile)

\* C5, as claimed: after every save_settings the settings file holds the
\* complete new document and the call succeeded, or the call failed and the
\* file is exactly as it was before the call.
SaveAllOrNothing ==
    [][last'.op = "save_settings"
       => \/ last'.ok /\ sfile' = Some(to_string_pretty(last'.saved[1]))
          \/ ~last'.ok /\ sfile' = sfile]_vars

\* C6: a load_settings right after a successful save_settings, when its
\* read of the file succeeds, returns the Settings that were saved.
SaveLoadRoundTrip ==
    [][(/\ last.op = "save_settings" /\ last.ok
        /\ last'.op = "load_settings" /\ last'.err # "Failed to read settings")
       => last'.ok /\ last'.settings = last.saved]_vars

\* a custom path with a character that needs escaping has come back
SaveLoadWitness ==
    /\ last.op = "load_settings"
    /\ last.ok
    /\ sfile # None
    /\ \E i \in 1..MaxStrLen :
          /\ i <= Len(last.settings[1].custom_path)
          /\ last.settings[1].custom_path[i] = Backslash

\* C7: fetch_branches returns an error when git cannot be launched, when it
\* exits non-zero, and when no line of its output has exactly one tab;
\* otherwise it returns one branch for each such line, in the order of the
\* lines, named by what follows the tab without the refs/heads/ prefix.
TabsOf(line) == {i \in 1..Len(line) : line[i] = Tab}

NameOf(line) ==
    LET t == CHOOSE i \in TabsOf(line) : TRUE
        rest == [i \in 1..(Len(line) - t) |-> line[t + i]]
    IN  IF rest # <<>> /\ rest[1] = RefsHeads
        THEN [i \in 1..(Len(rest) - 1) |-> rest[i + 1]]
        ELSE rest

FetchNeverEmpty ==
    last.op = "fetch_branches" =>
        LET lines == Lines(last.stdout)
            good == {i \in 1..Len(lines) : Cardinality(TabsOf(lines[i])) = 1}
            n == Len(last.branches)
        IN  /\ last.ok => n >= 1
            /\ last.git # "ok" => ~last.ok
            /\ last.ok <=> (last.git = "ok" /\ good # {})
            /\ last.ok =>
                  /\ n = Cardinality(good)
                  /\ \E f \in [1..n -> good] :
                        /\ \A i \in 1..n, j \in 1..n : i < j => f[i] < f[j]
                        /\ \A i \in 1..n : last.branches[i].name = NameOf(lines[f[i]])

\* two branches with different names, with a malformed line among the output
FetchWitness ==
    /\ last.op = "fetch_branches"
    /\ last.ok
    /\ Len(last.branches) = 2
    /\ last.branches[1].name # last.branches[2].name

\* C8: when APPDATA resolves, check_installation returns a status whatever
\* the installed directory holds and however the two queries end; a query
\* that did not succeed leaves its field unset, and a status with
\* installed = false has both fields unset.
CheckNeverFails ==
    (last.op = "check_installation" /\ appdata) =>
        /\ last.ok
        /\ last.status # None
        /\ LET st == last.status[1]
           IN  /\ st.installed = Exists(inst)
               /\ last.q1 # "ok" => st.branch = None
               /\ last.q2 # "ok" => st.last_updated = None
               /\ ~st.installed => st.branch = None /\ st.last_updated = None
               /\ (st.branch # None \/ st.last_updated # None) => HasPath(inst, GitDir)

\* the branch query could not be launched and the date query succeeded
CheckWitness ==
    /\ last.op = "check_installation"
    /\ last.ok
    /\ last.q1 = "nolaunch"
    /\ last.q2 = "ok"
    /\ last.status[1].installed
    /\ last.status[1].branch = None
    /\ last.status[1].last_updated = Some(<<"2 days ago">>)

\* C9: when the clone of switch_branch cannot be launched or exits non-zero,
\* switch_branch returns an error, the installed directory holds only what
\* the failed clone left (nothing of the previous installation), the backup
\* is untouched, and a check_installation that follows reports installed
\* exactly when the failed clone left a directory.
CloneFailed(call) == call.op = "switch_branch" /\ call.git \in {"nolaunch", "nonzero"}

SwitchDoesNotRollBack ==
    [][/\ CloneFailed(last') => ~last'.ok /\ inst' = last'.leftover /\ bak' = bak
       /\ (CloneFailed(last) /\ last'.op = "check_installation" /\ last'.ok)
              => last'.status[1].installed = Exists(last.leftover)]_vars

\* an installation was there, the clone failed, and nothing is installed
SwitchDoesNotRollBackWitness ==
    /\ CloneFailed(last)
    /\ last.existed
    /\ ~Exists(inst)

\* C10, as claimed: whenever backup_installation returns Ok, the backup holds
\* the whole installed tree as it was when the backup was copied.
BackupOkIsComplete == (last.op = "backup_installation" /\ last.ok) => bakWhole

====
